---- MODULE Spec2Model ----
(***************************************************************************)
(* A model of the RmPool connection pool of rm-mapepire-js (class RmPool   *)
(* and class RmPoolConnection).  JavaScript runs one task at a time: every *)
(* action below is one synchronous run of code, from a call or from the    *)
(* resumption of an await up to the next await that waits for the session  *)
(* (open, probe, close) or up to the settlement of the call.               *)
(***************************************************************************)
EXTENDS Integers, Sequences, FiniteSets, TLC

\* Bounds of the model.
MaxObj == 3       \* RmPoolConnection objects constructed in one run
NumCallers == 2   \* parties that call attach()
MaxSubmit == 2    \* attach() calls submitted in one run
MaxCfgMax == 3    \* maxSize ranges over 1..MaxCfgMax
MaxCfgInit == 3   \* initialConnections.size ranges over 1..MaxCfgInit
MaxCfgInc == 2    \* incrementConnections.size ranges over 1..MaxCfgInc
SeqMaxSize == 3   \* sequential use: maxSize and initial size range over 1..SeqMaxSize
SeqMaxSubmit == 5 \* sequential use: attach() calls made one after the other
MaxPoolIds == 9   \* registry: pool ids range over 1..MaxPoolIds
MaxOptVal == 2    \* constructor: a size or expiry option given is in 0..MaxOptVal
MaxGets == 2      \* registry: get() calls awaiting activatePool at one time
MaxLazyIds == 2   \* registry with overlapping calls: pool ids range over 1..MaxLazyIds

Obj == 1..MaxObj
Callers == 1..NumCallers

VARIABLES
  maxSize,              \* RmPool.maxSize
  initialSize,          \* RmPool.initialConnections.size
  initialExpiry,        \* RmPool.initialConnections.expiry (0 stands for null)
  incrementSize,        \* RmPool.incrementConnections.size
  incrementExpiry,      \* RmPool.incrementConnections.expiry (0 stands for null)
  healthCheckOnAttach,  \* RmPool.healthCheckOnAttach
  connections,          \* RmPool.connections: sequence of object identities
  nextConnectionId,     \* RmPool.nextConnectionId
  nObj,                 \* number of RmPoolConnection objects constructed so far
  conn,                 \* the fields of every RmPoolConnection object
  attachQueue,          \* RmPool.attachQueue: the calls chained and not yet settled
  att,                  \* per caller: its attach() call and the locals of _attach
  nSubmitted,           \* attach() calls submitted so far
  initPc, initI, initObj, \* RmPool.init(): position, loop counter, object awaited
  detaching,            \* objects whose detach() awaits connection.detach()
  retiring,             \* retire() calls awaiting the session close
  kept,                 \* connections a caller received and never gives back
  bulk,                 \* the retireAll(), close() or detachAll() call, if one was made
  qry,                  \* per caller: its pool.query() call
  opts,                 \* the PoolOptions the constructor was given
  registry              \* a pool registry: its pools and its register() call

cfgVars == <<maxSize, initialSize, initialExpiry, incrementSize, incrementExpiry,
             healthCheckOnAttach, opts>>
poolVars == <<connections, nextConnectionId, nObj, conn>>
initVars == <<initPc, initI, initObj>>
envVars == <<detaching, retiring, kept, bulk, qry>>
vars == <<cfgVars, registry, poolVars, attachQueue, att, nSubmitted, initVars, envVars>>

----------------------------------------------------------------------------
\* RmPoolConnection

\* An object that has not been constructed yet.  expiryTimerId says whether
\* the field holds a timeout handle, timers counts the timeouts scheduled for
\* the object that have neither run nor been cleared.
\* For the properties, expired records that setExpired ran on the object while
\* it was available, detached that a pool.detach() of it has completed,
\* sessionClosed that a close of its session has succeeded, origin which
\* caller of createConnection made it ("init" or "growth"), and again that a
\* pool.detach() of it has run while it was available already.
NoConn == [poolIndex |-> 0, available |-> FALSE, expiryTimerId |-> FALSE,
           expiry |-> 0, status |-> "none", expired |-> FALSE, detached |-> FALSE,
           sessionClosed |-> FALSE, origin |-> "none", timers |-> 0, again |-> FALSE]

\* new RmPoolConnection(...): available = false, expiryTimerId = null;
\* conn.init(poolIndex) stores the pool index before it awaits the session.
NewConn(poolIndex) ==
  [poolIndex |-> poolIndex, available |-> FALSE, expiryTimerId |-> FALSE,
   expiry |-> 0, status |-> "creating", expired |-> FALSE, detached |-> FALSE,
   sessionClosed |-> FALSE, origin |-> "none", timers |-> 0, again |-> FALSE]

\* RmPoolConnection.setAvailable
setAvailable(cn, o, availability) == [cn EXCEPT ![o].available = availability]

\* RmPool.cancelExpiryTimer: if (conn.expiryTimerId) clearTimeout and
\* expiryTimerId = null.
cancelExpiryTimerMutKeep(cn, o) == [cn EXCEPT ![o].expiryTimerId = FALSE]
cancelExpiryTimer(cn, o) ==
  IF cn[o].expiryTimerId
  THEN [cn EXCEPT ![o].expiryTimerId = FALSE, ![o].timers = @ - 1]
  ELSE cn

\* setTimeout(this.setExpired.bind(this), milliseconds, conn)
Scheduled(cn, o) == [cn EXCEPT ![o].expiryTimerId = TRUE, ![o].timers = @ + 1]

\* RmPool.setExpiryTimer: cancel, then schedule only for a positive expiry.
setExpiryTimerMutAlways(cn, o) == Scheduled(cancelExpiryTimer(cn, o), o)
setExpiryTimer(cn, o) ==
  IF cn[o].expiry > 0 THEN Scheduled(cancelExpiryTimer(cn, o), o)
  ELSE cancelExpiryTimer(cn, o)

\* A timeout of o ran: it is no longer pending, and clearing its handle (the
\* retire() that setExpired calls does) only sets expiryTimerId = null.
TimerRan(cn, o) == [cn EXCEPT ![o].expiryTimerId = FALSE, ![o].timers = @ - 1]

----------------------------------------------------------------------------
\* RmPool.createConnection

\* The id a new connection gets: ++this.nextConnectionId.
PoolIndexMutPosition(counter, lengthAfterPush) == lengthAfterPush
PoolIndexFor(counter, lengthAfterPush) == counter + 1

\* The synchronous part: push the new object, take the next id, start init.
CreatePushed(cs) == Append(cs, nObj + 1)
CreateConn(cs, cn) ==
  [cn EXCEPT ![nObj + 1] = NewConn(PoolIndexFor(nextConnectionId, Len(cs) + 1))]

\* The same, called from init() or from the growth loop of _attach.
CreateConnBy(cs, cn, by) == [CreateConn(cs, cn) EXCEPT ![nObj + 1].origin = by]

\* After conn.init resolved: expiry, timer, available.
CreateFinished(cn, o, expiry) ==
  setAvailable(setExpiryTimer([cn EXCEPT ![o].expiry = expiry, ![o].status = "ready"], o),
               o, TRUE)

\* conn.init rejected: createConnection throws; nothing is undone.
CreateFailedMutUndo(cn, o) ==
  [x \in Obj |-> IF x = o THEN [cn[x] EXCEPT !.status = "failed"]
                 ELSE [cn[x] EXCEPT !.available = FALSE]]
CreateFailed(cn, o) == [cn EXCEPT ![o].status = "failed"]

----------------------------------------------------------------------------
\* RmPool.retire

\* The synchronous part: cancel the timer, call connection.retire() (close).
RetireStarted(cn, o) == [cancelExpiryTimer(cn, o) EXCEPT ![o].status = "closing"]

\* indexOf(connection) !== -1
InPool(cs, o) == \E k \in 1..Len(cs) : cs[k] = o

\* indexOf + splice: remove by identity.
RemoveMutFirst(cs, o) == IF Len(cs) > 0 THEN Tail(cs) ELSE cs
Remove(cs, o) == SelectSeq(cs, LAMBDA x : x # o)

\* After the close resolved (ok) or rejected (the splice is skipped).
RetireClosed(cn, o, ok) ==
  [cn EXCEPT ![o].status = IF ok THEN "closed" ELSE "failed",
             ![o].sessionClosed = @ \/ ok]

----------------------------------------------------------------------------
\* RmPool._attach

\* The locals of one _attach run and the state of the attach() call around it.
\*   pc: "idle" (no call), "queued" (chained on attachQueue), "probe", "create",
\*       "retire" (awaiting), "spin" (looping without awaiting), "held" (resolved,
\*       the caller holds obj), "rejected" (err says why)
\*   i: the loop index of the scan (1-based), obj: the object awaited on
\*   ticket: the position of the call in the order of submission
\*   passed, failed: the object whose probe passed, last failed, in this call
\*   created, claimed: connections this call created, marked unavailable
\*   prev, prevFirst: the connection whose detach() the caller awaited right
\*       before this call, and whether it was then the leftmost available one
\*   grown, growCs: the connections createConnection returned to the growth
\*       loop this call entered last, and connections as it was when it entered
\*   step, stats0, unhealthy: the position of the call in an attach, detach,
\*       attach, detach sequence of its caller (0: not part of one), what
\*       getStats() returned before the sequence, and whether a probe failed
\*       in an earlier call of the sequence
NoStats == [total |-> 0, available |-> 0, busy |-> 0]
IdleAtt == [pc |-> "idle", i |-> 0, obj |-> 0, increasedPoolSize |-> FALSE,
            healthCheckRetries |-> 0, growI |-> 0, ticket |-> 0, err |-> "none",
            passed |-> 0, failed |-> 0, created |-> 0, claimed |-> 0,
            prev |-> 0, prevFirst |-> FALSE, grown |-> {}, growCs |-> <<>>,
            step |-> 0, stats0 |-> NoStats, unhealthy |-> FALSE]

InCritical(a) == a.pc \in {"probe", "create", "retire", "spin"}

\* for (i = 0; ...) if (this.connections[i].isAvailable()): the first one, or 0.
FirstAvailableMutLast(cs, cn) ==
  IF \E k \in 1..Len(cs) : cn[cs[k]].available
  THEN CHOOSE k \in 1..Len(cs) :
         /\ cn[cs[k]].available
         /\ \A j \in (k + 1)..Len(cs) : ~cn[cs[j]].available
  ELSE 0
FirstAvailable(cs, cn) ==
  IF \E k \in 1..Len(cs) : cn[cs[k]].available
  THEN CHOOSE k \in 1..Len(cs) :
         /\ cn[cs[k]].available
         /\ \A j \in 1..(k - 1) : ~cn[cs[j]].available
  ELSE 0

\* The pool cannot grow: this.connections.length >= this.maxSize.
AtMaxSizeMutOffByOne(cs) == Len(cs) > maxSize
AtMaxSize(cs) == Len(cs) >= maxSize

\* What the synchronous code does from the top of while (!validConnection):
\* claim the first available connection; else enter the growth loop at i = 0,
\* where a full pool throws (nothing created by this call) or breaks back to
\* the scan (which then finds nothing again, for ever); else create.
FromScan(cs, cn, a) ==
  IF FirstAvailable(cs, cn) # 0 THEN "claim"
  ELSE IF AtMaxSize(cs) THEN (IF a.increasedPoolSize THEN "spin" ELSE "exhausted")
  ELSE "create"

\* What it does after createConnection resolved, at growth loop index growI.
GrowsOnMutOnce(cs, a) == FALSE
GrowsOn(cs, a) == a.growI < incrementSize /\ ~AtMaxSize(cs)
FromGrowMutFill(cs, cn, a) ==
  IF ~AtMaxSize(cs) THEN "create" ELSE FromScan(cs, cn, [a EXCEPT !.growI = 0])
FromGrow(cs, cn, a) ==
  IF GrowsOn(cs, a) THEN "create"
  ELSE FromScan(cs, cn, [a EXCEPT !.growI = 0])

\* The locals when the growth loop is left: the next one starts at i = 0.
AfterGrow(cs, a) == IF GrowsOn(cs, a) THEN a ELSE [a EXCEPT !.growI = 0]

\* attach(): result = attachQueue.then(_attach); the call is chained last.
EnqueueMutFront(q, c) == <<c>> \o q
Enqueue(q, c) == Append(q, c)

\* _attach of call c starts when every call chained before it has settled.
AdmittedMutAlways(q, c) == TRUE
Admitted(q, c) == Len(q) > 0 /\ Head(q) = c

\* attachQueue = result.catch(() => {}): a settled call leaves the chain,
\* resolved or rejected.
SettledMutStuck(q, c, ok) == IF ok THEN Remove(q, c) ELSE q
Settled(q, c, ok) == Remove(q, c)

\* if (this.healthCheckOnAttach): the claimed connection is probed first.
ProbesOnAttachMutAlways == TRUE
ProbesOnAttach == healthCheckOnAttach

\* The call rejects with err.
Reject(c, cs, cn, a, err) ==
  /\ connections' = cs
  /\ conn' = cn
  /\ att' = [att EXCEPT ![c] = [a EXCEPT !.pc = "rejected", !.err = err, !.obj = 0, !.i = 0]]
  /\ attachQueue' = Settled(attachQueue, c, FALSE)
  /\ UNCHANGED <<nextConnectionId, nObj>>

\* return this.connections[i]
Resolve(c, cs, cn, a, idx) ==
  /\ connections' = cs
  /\ conn' = cn
  /\ att' = [att EXCEPT ![c] = [a EXCEPT !.pc = "held", !.obj = cs[idx], !.i = 0]]
  /\ attachQueue' = Settled(attachQueue, c, TRUE)
  /\ UNCHANGED <<nextConnectionId, nObj>>

\* The run goes on from the scan or the growth loop until it awaits or settles.
Continue(c, cs, cn, a, what) ==
  CASE what = "claim" ->
         LET idx == FirstAvailable(cs, cn)
             o == cs[idx]
             cn1 == setAvailable(cancelExpiryTimer(cn, o), o, FALSE)
             a1 == [a EXCEPT !.claimed = @ + 1]
         IN IF ProbesOnAttach
            THEN \* await this.connections[i].isHealthy()
                 /\ connections' = cs
                 /\ conn' = cn1
                 /\ att' = [att EXCEPT ![c] = [a1 EXCEPT !.pc = "probe", !.i = idx, !.obj = o]]
                 /\ UNCHANGED <<nextConnectionId, nObj, attachQueue>>
            ELSE Resolve(c, cs, cn1, a1, idx)
    [] what = "exhausted" -> Reject(c, cs, cn, a, "exhausted")
    [] what = "spin" ->
         /\ connections' = cs
         /\ conn' = cn
         /\ att' = [att EXCEPT ![c] = [a EXCEPT !.pc = "spin", !.obj = 0, !.i = 0]]
         /\ UNCHANGED <<nextConnectionId, nObj, attachQueue>>
    [] what = "create" ->
         \* connection = await this.createConnection(this.incrementConnections.expiry)
         /\ nObj < MaxObj
         /\ connections' = CreatePushed(cs)
         /\ conn' = CreateConnBy(cs, cn, "growth")
         /\ nextConnectionId' = nextConnectionId + 1
         /\ nObj' = nObj + 1
         /\ att' = [att EXCEPT ![c] =
                      [a EXCEPT !.pc = "create", !.obj = nObj + 1, !.i = 0,
                                !.grown = IF a.growI = 0 THEN {} ELSE @,
                                !.growCs = IF a.growI = 0 THEN cs ELSE @]]
         /\ UNCHANGED attachQueue

\* A run that loops without awaiting never returns to the event loop: no other
\* task, timer or completion runs again.
Spinning == \E c \in Callers : att[c].pc = "spin"

\* A caller calls pool.attach().
Submit(c) ==
  /\ ~Spinning
  /\ att[c].pc = "idle"
  /\ nSubmitted < MaxSubmit
  /\ att' = [att EXCEPT ![c] = [IdleAtt EXCEPT !.pc = "queued", !.ticket = nSubmitted + 1]]
  /\ attachQueue' = Enqueue(attachQueue, c)
  /\ nSubmitted' = nSubmitted + 1
  /\ UNCHANGED <<cfgVars, registry, poolVars, initVars, envVars>>

\* The chained _attach of call c starts and runs to its first await.
AttachStart(c) ==
  /\ ~Spinning
  /\ att[c].pc = "queued"
  /\ Admitted(attachQueue, c)
  /\ Continue(c, connections, conn, att[c], FromScan(connections, conn, att[c]))
  /\ UNCHANGED <<cfgVars, registry, nSubmitted, initVars, envVars>>

\* isHealthy() resolved.  The code reads this.connections[i] again after the
\* await: beyond the end of the array that is undefined and .poolIndex throws.
ProbeDone(c, healthy) ==
  /\ ~Spinning
  /\ att[c].pc = "probe"
  /\ LET a == IF healthy THEN [att[c] EXCEPT !.passed = att[c].obj]
                        ELSE [att[c] EXCEPT !.failed = att[c].obj]
     IN IF a.i > Len(connections)
        THEN Reject(c, connections, conn, a, "typeerror")
        ELSE IF healthy
        THEN Resolve(c, connections, conn, a, a.i)
        ELSE \* await this.retire(this.connections[i])
             LET t == connections[a.i]
             IN /\ conn' = RetireStarted(conn, t)
                /\ att' = [att EXCEPT ![c] = [a EXCEPT !.pc = "retire", !.obj = t]]
                /\ UNCHANGED <<connections, nextConnectionId, nObj, attachQueue>>
  /\ UNCHANGED <<cfgVars, registry, nSubmitted, initVars, envVars>>

\* The retire() awaited by _attach settled.
AttachRetireDone(c, ok) ==
  /\ ~Spinning
  /\ att[c].pc = "retire"
  /\ LET o == att[c].obj
         cn1 == RetireClosed(conn, o, ok)
         cs1 == Remove(connections, o)
         a1 == [att[c] EXCEPT !.healthCheckRetries = @ + 1]
     IN IF ~ok
        THEN Reject(c, connections, cn1, att[c], "retire")
        ELSE IF a1.healthCheckRetries >= maxSize
        THEN Reject(c, cs1, cn1, a1, "healthcheck")
        ELSE Continue(c, cs1, cn1, a1, FromScan(cs1, cn1, a1))
  /\ UNCHANGED <<cfgVars, registry, nSubmitted, initVars, envVars>>

\* The createConnection() awaited by _attach settled.
AttachCreateDone(c, ok) ==
  /\ ~Spinning
  /\ att[c].pc = "create"
  /\ LET o == att[c].obj
         cn1 == CreateFinished(conn, o, incrementExpiry)
         a1 == [att[c] EXCEPT !.growI = @ + 1, !.increasedPoolSize = TRUE,
                              !.created = @ + 1, !.grown = @ \cup {o}]
     IN IF ~ok
        THEN Reject(c, connections, CreateFailed(conn, o), att[c], "create")
        ELSE Continue(c, connections, cn1, AfterGrow(connections, a1),
                      FromGrow(connections, cn1, a1))
  /\ UNCHANGED <<cfgVars, registry, nSubmitted, initVars, envVars>>

\* The caller of a rejected attach() goes on.
Retry(c) ==
  /\ ~Spinning
  /\ att[c].pc = "rejected"
  /\ att' = [att EXCEPT ![c] = IdleAtt]
  /\ UNCHANGED <<cfgVars, registry, poolVars, attachQueue, nSubmitted, initVars, envVars>>

----------------------------------------------------------------------------
\* RmPool.detach, RmPool.retire, RmPool.setExpired

\* The holder calls pool.detach(obj): connection.detach() sets available at
\* once; setExpiryTimer runs after the await.
DetachStart(c) ==
  /\ ~Spinning
  /\ att[c].pc = "held"
  /\ conn' = setAvailable(conn, att[c].obj, TRUE)
  /\ detaching' = detaching \cup {att[c].obj}
  /\ att' = [att EXCEPT ![c] = IdleAtt]
  /\ UNCHANGED <<cfgVars, registry, connections, nextConnectionId, nObj, attachQueue,
                 nSubmitted, initVars, retiring, kept, bulk, qry>>

\* detach() after its await: this.setExpiryTimer(connection).
DetachFinished(cn, o) == [setExpiryTimer(cn, o) EXCEPT ![o].detached = TRUE]

DetachFinish(o) ==
  /\ ~Spinning
  /\ o \in detaching
  /\ conn' = DetachFinished(conn, o)
  /\ detaching' = detaching \ {o}
  /\ UNCHANGED <<cfgVars, registry, connections, nextConnectionId, nObj, attachQueue, att,
                 nSubmitted, initVars, retiring, kept, bulk, qry>>

\* The holder calls pool.retire(obj).
RetireStart(c) ==
  /\ ~Spinning
  /\ att[c].pc = "held"
  /\ conn' = RetireStarted(conn, att[c].obj)
  /\ retiring' = retiring \cup {<<att[c].obj, "caller">>}
  /\ att' = [att EXCEPT ![c] = IdleAtt]
  /\ UNCHANGED <<cfgVars, registry, connections, nextConnectionId, nObj, attachQueue,
                 nSubmitted, initVars, detaching, kept, bulk, qry>>

\* The expiry timer of o fires: setExpired(o).
TimerFire(o) ==
  /\ ~Spinning
  /\ conn[o].timers > 0
  /\ conn' = RetireStarted(
              setAvailable([TimerRan(conn, o) EXCEPT ![o].expired = @ \/ conn[o].available],
                           o, FALSE), o)
  /\ retiring' = retiring \cup {<<o, "expiry">>}
  /\ UNCHANGED <<cfgVars, registry, connections, nextConnectionId, nObj, attachQueue, att,
                 nSubmitted, initVars, detaching, kept, bulk, qry>>

\* The session close of a retire() (a caller's or setExpired's) settled.
RetireDone(r, ok) ==
  /\ ~Spinning
  /\ r \in retiring
  /\ retiring' = retiring \ {r}
  /\ conn' = RetireClosed(conn, r[1], ok)
  /\ connections' = IF ok THEN Remove(connections, r[1]) ELSE connections
  /\ UNCHANGED <<cfgVars, registry, nextConnectionId, nObj, attachQueue, att, nSubmitted,
                 initVars, detaching, kept, bulk, qry>>

----------------------------------------------------------------------------
\* RmPool.query

\* One query() call: pc is "idle", "attach" (awaiting this.attach()),
\* "detach" (the statement settled, awaiting this.detach(connection) in the
\* finally block), "resolved" or "rejected"; obj is the connection attach()
\* returned, stmtOk whether the statement succeeded.  For the properties,
\* claimed is the connection that attach() marked unavailable for this call.
IdleQuery == [pc |-> "idle", obj |-> 0, claimed |-> 0, stmtOk |-> FALSE, err |-> "none"]

\* The connection the resolved call marked unavailable last: the probed one
\* with health checking, else the returned one.
ClaimedBy(a) == IF healthCheckOnAttach THEN a.passed ELSE a.obj

\* A caller calls pool.query(sql): const connection = await this.attach().
QueryStart(c) ==
  /\ ~Spinning
  /\ qry[c].pc = "idle"
  /\ att[c].pc = "idle"
  /\ nSubmitted < MaxSubmit
  /\ att' = [att EXCEPT ![c] = [IdleAtt EXCEPT !.pc = "queued", !.ticket = nSubmitted + 1]]
  /\ attachQueue' = Enqueue(attachQueue, c)
  /\ nSubmitted' = nSubmitted + 1
  /\ qry' = [qry EXCEPT ![c] = [IdleQuery EXCEPT !.pc = "attach"]]
  /\ UNCHANGED <<cfgVars, registry, poolVars, initVars, detaching, retiring, kept, bulk>>

\* attach() rejected: query() rejects with it, nothing was borrowed.
QueryAttachFailed(c) ==
  /\ ~Spinning
  /\ qry[c].pc = "attach"
  /\ att[c].pc = "rejected"
  /\ qry' = [qry EXCEPT ![c] = [@ EXCEPT !.pc = "rejected", !.err = att[c].err]]
  /\ att' = [att EXCEPT ![c] = IdleAtt]
  /\ UNCHANGED <<cfgVars, registry, poolVars, attachQueue, nSubmitted, initVars, detaching,
                 retiring, kept, bulk>>

\* What the finally block does first, on success and on failure of the
\* statement: this.detach(connection) -> connection.detach() -> available.
QueryRelease(cn, o, ok) == setAvailable(cn, o, TRUE)

\* connection.query(sql, opts) settled (ok or thrown); finally starts detach.
QueryStatementDone(c, ok) ==
  /\ ~Spinning
  /\ qry[c].pc = "attach"
  /\ att[c].pc = "held"
  /\ conn' = QueryRelease(conn, att[c].obj, ok)
  /\ qry' = [qry EXCEPT ![c] = [@ EXCEPT !.pc = "detach", !.obj = att[c].obj,
                                          !.claimed = ClaimedBy(att[c]), !.stmtOk = ok]]
  /\ att' = [att EXCEPT ![c] = IdleAtt]
  /\ UNCHANGED <<cfgVars, registry, connections, nextConnectionId, nObj, attachQueue,
                 nSubmitted, initVars, detaching, retiring, kept, bulk>>

\* detach() resumed after its await and returned: query() settles.
QueryDetachDone(c) ==
  /\ ~Spinning
  /\ qry[c].pc = "detach"
  /\ conn' = DetachFinished(conn, qry[c].obj)
  /\ qry' = [qry EXCEPT ![c] = IF @.stmtOk THEN [@ EXCEPT !.pc = "resolved"]
                                ELSE [@ EXCEPT !.pc = "rejected", !.err = "statement"]]
  /\ UNCHANGED <<cfgVars, registry, connections, nextConnectionId, nObj, attachQueue, att,
                 nSubmitted, initVars, detaching, retiring, kept, bulk>>

\* The caller of a settled query() goes on.
QueryReturn(c) ==
  /\ ~Spinning
  /\ qry[c].pc \in {"resolved", "rejected"}
  /\ qry' = [qry EXCEPT ![c] = IdleQuery]
  /\ UNCHANGED <<cfgVars, registry, poolVars, attachQueue, att, nSubmitted, initVars,
                 detaching, retiring, kept, bulk>>

----------------------------------------------------------------------------
\* RmPool.retireAll, RmPool.close (the same loop, another error message)

\* One retireAll()/close() call: op is the method, pc is "idle" (not called),
\* "closing" (awaiting this.retire(obj)), "resolved" (true) or "rejected".
\* For a detachAll() call pc is "detaching" (its detach(obj) awaits
\* connection.detach()) or "looping" (detach(obj) returned, the loop awaits
\* it), and i is the loop index (1-based).
\* For the properties, atStart are the connections pooled when it was called
\* and attempted those it called retire() on.
IdleBulk == [op |-> "none", pc |-> "idle", obj |-> 0, atStart |-> {}, attempted |-> {},
             i |-> 0]

Members(cs) == {cs[k] : k \in 1..Len(cs)}

\* while (this.connections.length > 0) await this.retire(this.connections[0])
RetireAllLoopMutEarly(cs, cn, b) ==
  IF Len(cs) > 1
  THEN /\ conn' = RetireStarted(cn, cs[1])
       /\ bulk' = [b EXCEPT !.pc = "closing", !.obj = cs[1], !.attempted = @ \cup {cs[1]}]
  ELSE /\ conn' = cn
       /\ bulk' = [b EXCEPT !.pc = "resolved", !.obj = 0]
RetireAllLoop(cs, cn, b) ==
  IF Len(cs) > 0
  THEN /\ conn' = RetireStarted(cn, cs[1])
       /\ bulk' = [b EXCEPT !.pc = "closing", !.obj = cs[1], !.attempted = @ \cup {cs[1]}]
  ELSE /\ conn' = cn
       /\ bulk' = [b EXCEPT !.pc = "resolved", !.obj = 0]

\* A caller calls pool.retireAll() or pool.close().
RetireAllStart(op) ==
  /\ ~Spinning
  /\ bulk.pc = "idle"
  /\ RetireAllLoop(connections, conn,
                   [IdleBulk EXCEPT !.op = op, !.atStart = Members(connections)])
  /\ UNCHANGED <<cfgVars, registry, connections, nextConnectionId, nObj, attachQueue, att,
                 nSubmitted, initVars, detaching, retiring, kept, qry>>

\* The retire() awaited by the loop settled: a failure ends the call at once.
RetireAllDone(ok) ==
  /\ ~Spinning
  /\ bulk.pc = "closing"
  /\ IF ok
     THEN /\ connections' = Remove(connections, bulk.obj)
          /\ RetireAllLoop(Remove(connections, bulk.obj),
                           RetireClosed(conn, bulk.obj, TRUE), bulk)
     ELSE /\ connections' = connections
          /\ conn' = RetireClosed(conn, bulk.obj, FALSE)
          /\ bulk' = [bulk EXCEPT !.pc = "rejected", !.obj = 0]
  /\ UNCHANGED <<cfgVars, registry, nextConnectionId, nObj, attachQueue, att, nSubmitted,
                 initVars, detaching, retiring, kept, qry>>

----------------------------------------------------------------------------
\* RmPool.detachAll

\* for (i < this.connections.length) await this.detach(this.connections[i]):
\* the loop test at index i and detach() up to its await, where
\* connection.detach() has set available.
DetachAllLoop(cs, cn, b, i) ==
  IF i <= Len(cs)
  THEN /\ conn' = setAvailable(cn, cs[i], TRUE)
       /\ bulk' = [b EXCEPT !.pc = "detaching", !.obj = cs[i], !.i = i,
                            !.attempted = @ \cup {cs[i]}]
  ELSE /\ conn' = cn
       /\ bulk' = [b EXCEPT !.pc = "resolved", !.obj = 0]

\* A caller calls pool.detachAll().
DetachAllStart ==
  /\ ~Spinning
  /\ bulk.pc = "idle"
  /\ DetachAllLoop(connections, conn,
                   [IdleBulk EXCEPT !.op = "detachAll", !.atStart = Members(connections)], 1)
  /\ UNCHANGED <<cfgVars, registry, connections, nextConnectionId, nObj, attachQueue, att,
                 nSubmitted, initVars, detaching, retiring, kept, qry>>

\* The detach() of the loop resumes: setExpiryTimer, and it returns.
DetachAllDetached ==
  /\ ~Spinning
  /\ bulk.pc = "detaching"
  /\ conn' = DetachFinished(conn, bulk.obj)
  /\ bulk' = [bulk EXCEPT !.pc = "looping"]
  /\ UNCHANGED <<cfgVars, registry, connections, nextConnectionId, nObj, attachQueue, att,
                 nSubmitted, initVars, detaching, retiring, kept, qry>>

\* The loop resumes: i += 1, the next detach() or return true.
DetachAllStep ==
  /\ ~Spinning
  /\ bulk.pc = "looping"
  /\ DetachAllLoop(connections, conn, bulk, bulk.i + 1)
  /\ UNCHANGED <<cfgVars, registry, connections, nextConnectionId, nObj, attachQueue, att,
                 nSubmitted, initVars, detaching, retiring, kept, qry>>

----------------------------------------------------------------------------
\* RmPool.init

\* createConnection(this.initialConnections.expiry), up to the await.
InitCreate(cn) ==
  /\ nObj < MaxObj
  /\ connections' = CreatePushed(connections)
  /\ conn' = CreateConnBy(connections, cn, "init")
  /\ nextConnectionId' = nextConnectionId + 1
  /\ nObj' = nObj + 1
  /\ initObj' = nObj + 1
  /\ initPc' = "create"

\* for (let i = 0; i < this.initialConnections.size; i += 1): one more?
InitMore(i) == i < initialSize

\* A caller calls pool.init().
InitStart ==
  /\ ~Spinning
  /\ initPc = "idle"
  /\ InitCreate(conn)
  /\ initI' = 0
  /\ UNCHANGED <<cfgVars, registry, attachQueue, att, nSubmitted, envVars>>

\* The createConnection() awaited by init() resolved: next iteration or done.
InitCreateDone ==
  /\ ~Spinning
  /\ initPc = "create"
  /\ initI' = initI + 1
  /\ IF InitMore(initI + 1)
     THEN InitCreate(CreateFinished(conn, initObj, initialExpiry))
     ELSE /\ conn' = CreateFinished(conn, initObj, initialExpiry)
          /\ initPc' = "done"
          /\ initObj' = 0
          /\ UNCHANGED <<connections, nextConnectionId, nObj>>
  /\ UNCHANGED <<cfgVars, registry, attachQueue, att, nSubmitted, envVars>>

\* It rejected: init() rejects.
InitCreateFailed ==
  /\ ~Spinning
  /\ initPc = "create"
  /\ conn' = CreateFailed(conn, initObj)
  /\ initPc' = "failed"
  /\ initObj' = 0
  /\ UNCHANGED <<cfgVars, registry, connections, nextConnectionId, nObj, attachQueue, att,
                 nSubmitted, initI, envVars>>

----------------------------------------------------------------------------
\* The pool registry: RmPools (and its earlier version rmPools)

MAX_POOLS == 8

\* registry.impl says which version of the class the registry is, activate is
\* config.activate, pools the ids and active flags of this.pools in order,
\* call the last register() call: pc is "idle", "activating" (awaiting
\* activatePool), "returned" (ret is the value) or "rejected"; gets the ids
\* of the get() calls that await their activatePool, in the order they began.
\* Ids are numbers; an id not registered yet is taken to be the next number.
PoolIds == 1..MaxPoolIds
IdleCall == [pc |-> "idle", id |-> 0, ret |-> FALSE]
NoRegistry == [impl |-> "none", activate |-> FALSE, pools |-> <<>>, call |-> IdleCall,
               gets |-> <<>>]

\* for (i < poolsLength) if (this.pools[i].id === poolToReg.id)
Registered(ps, id) == \E k \in 1..Len(ps) : ps[k].id = id

\* RmPools: poolsLength >= MAX_POOLS; rmPools: poolsLength >= MAX_POOLS - 1
RegistryFull(impl, ps) ==
  IF impl = "RmPools" THEN Len(ps) >= MAX_POOLS ELSE Len(ps) >= MAX_POOLS - 1

\* register(poolToReg) up to its return or its await of activatePool.
Register(id) ==
  /\ registry.call.pc # "activating"
  /\ id <= Len(registry.pools) + 1
  /\ registry' =
       IF Registered(registry.pools, id) \/ RegistryFull(registry.impl, registry.pools)
       THEN [registry EXCEPT !.call = [pc |-> "returned", id |-> id, ret |-> FALSE]]
       ELSE [registry EXCEPT
               !.pools = Append(@, [id |-> id, active |-> FALSE]),
               !.call = IF registry.activate
                        THEN [pc |-> "activating", id |-> id, ret |-> FALSE]
                        ELSE [pc |-> "returned", id |-> id, ret |-> TRUE]]
  /\ UNCHANGED <<cfgVars, poolVars, attachQueue, att, nSubmitted, initVars, envVars>>

\* activatePool: pool.rmPool.init() settled; pool.active = true after it.
Activated(ps, id, ok) ==
  [k \in 1..Len(ps) |-> IF ps[k].id = id /\ ok THEN [ps[k] EXCEPT !.active = TRUE] ELSE ps[k]]

\* The activatePool awaited by register() settled.
RegisterActivated(ok) ==
  /\ registry.call.pc = "activating"
  /\ registry' = [registry EXCEPT
                    !.pools = Activated(@, registry.call.id, ok),
                    !.call = IF ok THEN [@ EXCEPT !.pc = "returned", !.ret = TRUE]
                             ELSE [@ EXCEPT !.pc = "rejected"]]
  /\ UNCHANGED <<cfgVars, poolVars, attachQueue, att, nSubmitted, initVars, envVars>>

\* get(poolId) of a registered pool that is not active: activatePool.
Get(id, ok) ==
  /\ registry.call.pc # "activating"
  /\ \E k \in 1..Len(registry.pools) :
       registry.pools[k].id = id /\ ~registry.pools[k].active
  /\ registry' = [registry EXCEPT !.pools = Activated(@, id, ok)]
  /\ UNCHANGED <<cfgVars, poolVars, attachQueue, att, nSubmitted, initVars, envVars>>

\* if (!pool.active) await this.activatePool(pool): the pool is found and
\* is not active.
NeedsActivation(ps, id) == \E k \in 1..Len(ps) : ps[k].id = id /\ ~ps[k].active

\* get(poolId) up to its await: activatePool has run new RmPool(pool) and
\* called init() on it.
GetStart(id) ==
  /\ Len(registry.gets) < MaxGets
  /\ NeedsActivation(registry.pools, id)
  /\ registry' = [registry EXCEPT !.gets = Append(@, id)]
  /\ UNCHANGED <<cfgVars, poolVars, attachQueue, att, nSubmitted, initVars, envVars>>

\* The k-th of the get() calls in flight: its init() settled, pool.active =
\* true after it, and the call returns pool.rmPool (or rejects).
GetDone(k, ok) ==
  /\ k \in 1..Len(registry.gets)
  /\ registry' = [registry EXCEPT
                    !.pools = Activated(@, registry.gets[k], ok),
                    !.gets = [j \in 1..(Len(@) - 1) |-> IF j < k THEN @[j] ELSE @[j + 1]]]
  /\ UNCHANGED <<cfgVars, poolVars, attachQueue, att, nSubmitted, initVars, envVars>>

----------------------------------------------------------------------------
\* RmPool.constructor: the options and their defaults

\* An option: omitted, or given with a value.
Omitted == [given |-> FALSE, v |-> 0]
Given(v) == [given |-> TRUE, v |-> v]

\* x || d: the default also replaces a given 0.
OrDefault(x, d) == IF x.given /\ x.v # 0 THEN x.v ELSE d

DefaultMaxSize == 20
DefaultInitialSize == 8
DefaultIncrementSize == 8

\* {}: an initialConnections or incrementConnections without fields.
NoObject == [given |-> FALSE, size |-> Omitted, expiry |-> Omitted]

\* this.initialConnections = opts.initialConnections || {}; size || 8;
\* expiry || null (0 stands for null).
CtorInitial(o) ==
  LET ic == IF o.initialConnections.given THEN o.initialConnections ELSE NoObject
  IN [size |-> OrDefault(ic.size, DefaultInitialSize), expiry |-> OrDefault(ic.expiry, 0)]

\* this.incrementConnections = opts.incrementConnections ||
\* opts.initialConnections || {}; size || 8; expiry || null.  The second
\* operand is the object whose size and expiry were just filled in.
CtorIncrement(o) ==
  IF o.incrementConnections.given
  THEN [size |-> OrDefault(o.incrementConnections.size, DefaultIncrementSize),
        expiry |-> OrDefault(o.incrementConnections.expiry, 0)]
  ELSE IF o.initialConnections.given
  THEN [size |-> OrDefault(Given(CtorInitial(o).size), DefaultIncrementSize),
        expiry |-> OrDefault(Given(CtorInitial(o).expiry), 0)]
  ELSE [size |-> DefaultIncrementSize, expiry |-> 0]

\* opts.healthCheck?.onAttach ?? true
CtorHealthCheck(o) == IF o.onAttach.given THEN o.onAttach.v ELSE TRUE

\* The options of a pool whose every option is given.
GivenOpts(m, is, ie, ns, ne, hc) ==
  [maxSize |-> Given(m),
   initialConnections |-> [given |-> TRUE, size |-> Given(is), expiry |-> Given(ie)],
   incrementConnections |-> [given |-> TRUE, size |-> Given(ns), expiry |-> Given(ne)],
   onAttach |-> [given |-> TRUE, v |-> hc]]

\* A pool constructed on its own with every option given.
Standalone ==
  /\ opts = GivenOpts(maxSize, initialSize, initialExpiry, incrementSize,
                      incrementExpiry, healthCheckOnAttach)
  /\ registry = NoRegistry

----------------------------------------------------------------------------
\* new RmPool(config): no connections, nextConnectionId = 0, an empty chain.
PoolInit ==
  /\ connections = <<>>
  /\ nextConnectionId = 0
  /\ nObj = 0
  /\ conn = [o \in Obj |-> NoConn]
  /\ attachQueue = <<>>
  /\ att = [c \in Callers |-> IdleAtt]
  /\ nSubmitted = 0
  /\ initPc = "idle" /\ initI = 0 /\ initObj = 0
  /\ detaching = {}
  /\ retiring = {}
  /\ kept = {}
  /\ bulk = IdleBulk
  /\ qry = [c \in Callers |-> IdleQuery]

Init ==
  /\ maxSize \in 1..MaxCfgMax
  /\ initialSize \in 1..MaxCfgInit
  /\ incrementSize \in 1..MaxCfgInc
  /\ initialExpiry \in {0, 1}
  /\ incrementExpiry \in {0, 1}
  /\ healthCheckOnAttach \in BOOLEAN
  /\ PoolInit
  /\ Standalone

Next ==
  \/ InitStart
  \/ InitCreateDone
  \/ InitCreateFailed
  \/ \E c \in Callers : Submit(c)
  \/ \E c \in Callers : AttachStart(c)
  \/ \E c \in Callers, healthy \in BOOLEAN : ProbeDone(c, healthy)
  \/ \E c \in Callers, ok \in BOOLEAN : AttachRetireDone(c, ok)
  \/ \E c \in Callers, ok \in BOOLEAN : AttachCreateDone(c, ok)
  \/ \E c \in Callers : Retry(c)
  \/ \E c \in Callers : DetachStart(c)
  \/ \E o \in Obj : DetachFinish(o)
  \/ \E c \in Callers : RetireStart(c)
  \/ \E o \in Obj : TimerFire(o)
  \/ \E r \in retiring, ok \in BOOLEAN : RetireDone(r, ok)

Spec == Init /\ [][Next]_vars

----------------------------------------------------------------------------
\* Sequential use: one caller awaits init(), then awaits one attach() after
\* the other and keeps every connection it gets; no expiry is configured.
SeqCaller == CHOOSE c \in Callers : \A d \in Callers : c <= d

SeqSubmit(c) ==
  /\ initPc = "done"
  /\ att[c].pc = "idle"
  /\ nSubmitted < SeqMaxSubmit
  /\ att' = [att EXCEPT ![c] = [IdleAtt EXCEPT !.pc = "queued", !.ticket = nSubmitted + 1]]
  /\ attachQueue' = Enqueue(attachQueue, c)
  /\ nSubmitted' = nSubmitted + 1
  /\ UNCHANGED <<cfgVars, registry, poolVars, initVars, envVars>>

Keep(c) ==
  /\ att[c].pc = "held"
  /\ kept' = kept \cup {att[c].obj}
  /\ att' = [att EXCEPT ![c] = IdleAtt]
  /\ UNCHANGED <<cfgVars, registry, poolVars, attachQueue, nSubmitted, initVars, detaching, retiring, bulk, qry>>

SeqInit ==
  /\ maxSize \in 1..SeqMaxSize
  /\ initialSize \in 1..SeqMaxSize
  /\ incrementSize \in 1..MaxCfgInc
  /\ initialExpiry = 0
  /\ incrementExpiry = 0
  /\ healthCheckOnAttach \in BOOLEAN
  /\ PoolInit
  /\ Standalone

SeqNext ==
  \/ InitStart
  \/ InitCreateDone
  \/ InitCreateFailed
  \/ SeqSubmit(SeqCaller)
  \/ AttachStart(SeqCaller)
  \/ \E healthy \in BOOLEAN : ProbeDone(SeqCaller, healthy)
  \/ \E ok \in BOOLEAN : AttachRetireDone(SeqCaller, ok)
  \/ \E ok \in BOOLEAN : AttachCreateDone(SeqCaller, ok)
  \/ Keep(SeqCaller)

SpecSeq == SeqInit /\ [][SeqNext]_vars

----------------------------------------------------------------------------
\* Sequential reuse: as sequential use, and the caller may give back a
\* connection it keeps, awaiting detach(), on its own or right before its
\* next attach().

\* o is pooled and no connection ahead of it in connections is available.
Leftmost(cs, cn, o) ==
  \E k \in 1..Len(cs) : cs[k] = o /\ \A j \in 1..(k - 1) : ~cn[cs[j]].available

\* await pool.detach(o), nothing else running: both halves of detach().
SeqDetachedMutNoRelease(cn, o) == DetachFinished(cn, o)
SeqDetached(cn, o) == DetachFinished(setAvailable(cn, o, TRUE), o)

SeqDetach(c, o) ==
  /\ att[c].pc = "idle"
  /\ o \in kept
  /\ conn' = SeqDetached(conn, o)
  /\ kept' = kept \ {o}
  /\ UNCHANGED <<cfgVars, registry, connections, nextConnectionId, nObj, attachQueue, att,
                 nSubmitted, initVars, detaching, retiring, bulk, qry>>

\* await pool.detach(o); then pool.attach() at once.
SeqDetachAttach(c, o) ==
  /\ att[c].pc = "idle"
  /\ o \in kept
  /\ nSubmitted < SeqMaxSubmit
  /\ conn' = SeqDetached(conn, o)
  /\ kept' = kept \ {o}
  /\ att' = [att EXCEPT ![c] =
               [IdleAtt EXCEPT !.pc = "queued", !.ticket = nSubmitted + 1, !.prev = o,
                               !.prevFirst = Leftmost(connections, conn', o)]]
  /\ attachQueue' = Enqueue(attachQueue, c)
  /\ nSubmitted' = nSubmitted + 1
  /\ UNCHANGED <<cfgVars, registry, connections, nextConnectionId, nObj, initVars, detaching,
                 retiring, bulk, qry>>

ReuseNext ==
  \/ SeqNext
  \/ \E o \in Obj : SeqDetach(SeqCaller, o)
  \/ \E o \in Obj : SeqDetachAttach(SeqCaller, o)

SpecReuse == SeqInit /\ [][ReuseNext]_vars

----------------------------------------------------------------------------
\* RmPool.getStats: total, available and busy connections of the pool.
getStats(cs, cn) ==
  [total |-> Len(cs),
   available |-> Cardinality({k \in 1..Len(cs) : cn[cs[k]].available}),
   busy |-> Cardinality({k \in 1..Len(cs) : ~cn[cs[k]].available})]

\* Round trips: as sequential reuse, and the caller may run
\* await attach(); await detach(); await attach(); await detach() on the
\* connection each attach() returned, once init() has settled.

\* getStats(), then pool.attach().
TripStart(c) ==
  /\ initPc \in {"done", "failed"}
  /\ att[c].pc = "idle"
  /\ nSubmitted < SeqMaxSubmit
  /\ att' = [att EXCEPT ![c] =
               [IdleAtt EXCEPT !.pc = "queued", !.ticket = nSubmitted + 1, !.step = 1,
                               !.stats0 = getStats(connections, conn)]]
  /\ attachQueue' = Enqueue(attachQueue, c)
  /\ nSubmitted' = nSubmitted + 1
  /\ UNCHANGED <<cfgVars, registry, poolVars, initVars, envVars>>

\* The first attach() resolved: await pool.detach(obj), then pool.attach().
TripTurn(c) ==
  /\ att[c].pc = "held"
  /\ att[c].step = 1
  /\ nSubmitted < SeqMaxSubmit
  /\ conn' = SeqDetached(conn, att[c].obj)
  /\ att' = [att EXCEPT ![c] =
               [IdleAtt EXCEPT !.pc = "queued", !.ticket = nSubmitted + 1, !.step = 2,
                               !.stats0 = att[c].stats0,
                               !.unhealthy = att[c].failed # 0]]
  /\ attachQueue' = Enqueue(attachQueue, c)
  /\ nSubmitted' = nSubmitted + 1
  /\ UNCHANGED <<cfgVars, registry, connections, nextConnectionId, nObj, initVars, envVars>>

\* The second attach() resolved: await pool.detach(obj); getStats().
TripFinish(c) ==
  /\ att[c].pc = "held"
  /\ att[c].step = 2
  /\ conn' = SeqDetached(conn, att[c].obj)
  /\ att' = [att EXCEPT ![c] =
               [IdleAtt EXCEPT !.step = 3, !.stats0 = att[c].stats0,
                               !.unhealthy = att[c].unhealthy \/ att[c].failed # 0]]
  /\ UNCHANGED <<cfgVars, registry, connections, nextConnectionId, nObj, attachQueue,
                 nSubmitted, initVars, envVars>>

TripNext ==
  \/ ReuseNext
  \/ TripStart(SeqCaller)
  \/ TripTurn(SeqCaller)
  \/ TripFinish(SeqCaller)

SpecTrip == SeqInit /\ [][TripNext]_vars

----------------------------------------------------------------------------
\* Repeated detach: as sequential reuse, with expiry, and the caller may call
\* await pool.detach(o) on a pooled connection that is available already.
SeqDetachAgain(c, o) ==
  /\ att[c].pc = "idle"
  /\ InPool(connections, o)
  /\ conn[o].available
  /\ conn' = [SeqDetached(conn, o) EXCEPT ![o].again = TRUE]
  /\ UNCHANGED <<cfgVars, registry, connections, nextConnectionId, nObj, attachQueue, att,
                 nSubmitted, initVars, envVars>>

AgainInit ==
  /\ maxSize \in 1..SeqMaxSize
  /\ initialSize \in 1..SeqMaxSize
  /\ incrementSize = 1
  /\ initialExpiry \in {0, 1}
  /\ incrementExpiry \in {0, 1}
  /\ healthCheckOnAttach \in BOOLEAN
  /\ PoolInit
  /\ Standalone

AgainNext ==
  \/ SeqNext
  \/ \E o \in Obj : SeqDetach(SeqCaller, o)
  \/ \E o \in Obj : SeqDetachAgain(SeqCaller, o)
  \/ \E o \in Obj : TimerFire(o)
  \/ \E r \in retiring, ok \in BOOLEAN : RetireDone(r, ok)

SpecAgain == AgainInit /\ [][AgainNext]_vars

----------------------------------------------------------------------------
\* Listeners.  this.emit(...) calls the listeners of the event synchronously
\* and no emit of RmPool is inside a try block that handles a listener's
\* exception: what a listener throws is thrown by the emit.  The actions
\* above are the runs in which no listener throws; these are the runs in
\* which the listener of 'connection:created' or 'connection:attached' does.

\* createConnection() of init(): the session opened, expiry, timer and
\* available are set, emit('connection:created') throws; init() rejects.
InitCreatedListenerThrows ==
  /\ ~Spinning
  /\ initPc = "create"
  /\ conn' = CreateFinished(conn, initObj, initialExpiry)
  /\ initPc' = "threw"
  /\ initObj' = 0
  /\ UNCHANGED <<cfgVars, registry, connections, nextConnectionId, nObj, attachQueue, att,
                 nSubmitted, initI, envVars>>

\* createConnection() of the growth loop: the same; _attach rejects.
AttachCreatedListenerThrows(c) ==
  /\ ~Spinning
  /\ att[c].pc = "create"
  /\ Reject(c, connections, CreateFinished(conn, att[c].obj, incrementExpiry),
            att[c], "listener")
  /\ UNCHANGED <<cfgVars, registry, nSubmitted, initVars, envVars>>

\* _attach without health check: the first available connection is marked
\* unavailable, emit('connection:attached') throws; _attach rejects.
AttachedListenerThrows(c) ==
  /\ ~Spinning
  /\ ~healthCheckOnAttach
  /\ att[c].pc = "queued"
  /\ Admitted(attachQueue, c)
  /\ FromScan(connections, conn, att[c]) = "claim"
  /\ LET o == connections[FirstAvailable(connections, conn)]
     IN Reject(c, connections, setAvailable(cancelExpiryTimer(conn, o), o, FALSE),
               [att[c] EXCEPT !.claimed = @ + 1], "listener")
  /\ UNCHANGED <<cfgVars, registry, nSubmitted, initVars, envVars>>

ListenInit == Init /\ ~healthCheckOnAttach

ListenNext ==
  \/ InitStart
  \/ InitCreateDone
  \/ InitCreateFailed
  \/ InitCreatedListenerThrows
  \/ \E c \in Callers : Submit(c)
  \/ \E c \in Callers : AttachStart(c)
  \/ \E c \in Callers, ok \in BOOLEAN : AttachCreateDone(c, ok)
  \/ \E c \in Callers : AttachCreatedListenerThrows(c)
  \/ \E c \in Callers : AttachedListenerThrows(c)
  \/ \E c \in Callers : Retry(c)
  \/ \E c \in Callers : DetachStart(c)
  \/ \E o \in Obj : DetachFinish(o)

SpecListen == ListenInit /\ [][ListenNext]_vars

----------------------------------------------------------------------------
\* Construction: the constructor is given any options, then init() runs.
OptValues == {Omitted} \cup {Given(v) : v \in 0..MaxOptVal}
OptObjects ==
  {NoObject} \cup {[given |-> TRUE, size |-> sz, expiry |-> e] : sz \in OptValues, e \in OptValues}
OptFlags == {[given |-> FALSE, v |-> FALSE]} \cup {[given |-> TRUE, v |-> b] : b \in BOOLEAN}

CtorInit ==
  /\ opts \in [maxSize : OptValues, initialConnections : OptObjects,
                incrementConnections : OptObjects, onAttach : OptFlags]
  /\ maxSize = 0 /\ initialSize = 0 /\ initialExpiry = 0
  /\ incrementSize = 0 /\ incrementExpiry = 0
  /\ healthCheckOnAttach = FALSE
  /\ registry = NoRegistry
  /\ connections = <<>>
  /\ nextConnectionId = 0
  /\ nObj = 0
  /\ conn = [o \in Obj |-> NoConn]
  /\ attachQueue = <<>>
  /\ att = [c \in Callers |-> IdleAtt]
  /\ nSubmitted = 0
  /\ initPc = "new" /\ initI = 0 /\ initObj = 0
  /\ detaching = {} /\ retiring = {} /\ kept = {}
  /\ bulk = IdleBulk
  /\ qry = [c \in Callers |-> IdleQuery]

\* new RmPool({ id, config }): the settings are taken from the options.
Construct ==
  /\ initPc = "new"
  /\ maxSize' = OrDefault(opts.maxSize, DefaultMaxSize)
  /\ initialSize' = CtorInitial(opts).size
  /\ initialExpiry' = CtorInitial(opts).expiry
  /\ incrementSize' = CtorIncrement(opts).size
  /\ incrementExpiry' = CtorIncrement(opts).expiry
  /\ healthCheckOnAttach' = CtorHealthCheck(opts)
  /\ initPc' = "idle"
  /\ UNCHANGED <<opts, registry, poolVars, attachQueue, att, nSubmitted, initI,
                 initObj, envVars>>

CtorNext ==
  \/ Construct
  \/ InitStart
  \/ InitCreateDone
  \/ InitCreateFailed

SpecCtor == CtorInit /\ [][CtorNext]_vars

----------------------------------------------------------------------------
\* The registry on its own: register() and get() calls one after the other.
RegistryInit ==
  /\ registry \in [impl : {"RmPools", "rmPools"}, activate : BOOLEAN,
                    pools : {<<>>}, call : {IdleCall}, gets : {<<>>}]
  /\ maxSize = DefaultMaxSize
  /\ initialSize = DefaultInitialSize
  /\ initialExpiry = 0
  /\ incrementSize = DefaultIncrementSize
  /\ incrementExpiry = 0
  /\ healthCheckOnAttach = TRUE
  /\ opts = [maxSize |-> Omitted, initialConnections |-> NoObject,
             incrementConnections |-> NoObject,
             onAttach |-> [given |-> FALSE, v |-> FALSE]]
  /\ PoolInit

RegistryNext ==
  \/ \E id \in PoolIds : Register(id)
  \/ \E ok \in BOOLEAN : RegisterActivated(ok)
  \/ \E id \in PoolIds, ok \in BOOLEAN : Get(id, ok)

SpecRegistry == RegistryInit /\ [][RegistryNext]_vars

----------------------------------------------------------------------------
\* The registry with overlapping calls: a get() may begin while the
\* activation of a register() or of another get() is awaited.
LazyNext ==
  \/ \E id \in 1..MaxLazyIds : Register(id)
  \/ \E ok \in BOOLEAN : RegisterActivated(ok)
  \/ \E id \in 1..MaxLazyIds : GetStart(id)
  \/ \E k \in 1..MaxGets, ok \in BOOLEAN : GetDone(k, ok)

SpecLazy == RegistryInit /\ [][LazyNext]_vars

----------------------------------------------------------------------------
\* Shutdown: init(), attach() calls of one caller who keeps what it gets,
\* expiry, and one retireAll() or close() at any time; no health check.
BulkInit ==
  /\ maxSize \in 1..SeqMaxSize
  /\ initialSize \in 1..SeqMaxSize
  /\ incrementSize = 1
  /\ initialExpiry \in {0, 1}
  /\ incrementExpiry = 0
  /\ healthCheckOnAttach = FALSE
  /\ PoolInit
  /\ Standalone

BulkNext ==
  \/ InitStart
  \/ InitCreateDone
  \/ InitCreateFailed
  \/ Submit(SeqCaller)
  \/ AttachStart(SeqCaller)
  \/ \E ok \in BOOLEAN : AttachCreateDone(SeqCaller, ok)
  \/ \E o \in Obj : TimerFire(o)
  \/ \E r \in retiring, ok \in BOOLEAN : RetireDone(r, ok)
  \/ \E op \in {"retireAll", "close"} : RetireAllStart(op)
  \/ \E ok \in BOOLEAN : RetireAllDone(ok)

SpecBulk == BulkInit /\ [][BulkNext]_vars

----------------------------------------------------------------------------
\* Release of everything: init(), attach() calls of one caller who keeps what
\* it gets, expiry, and one detachAll() at any time.  connection.detach()
\* waits for nothing, so a detachAll() call runs in consecutive microtasks:
\* while it runs, calls can be made and a chained _attach can start, but no
\* session open, probe or close completes and no timer fires.
Quiet == bulk.pc \notin {"detaching", "looping"}

DetachAllNext ==
  \/ InitStart
  \/ Quiet /\ InitCreateDone
  \/ Quiet /\ InitCreateFailed
  \/ Submit(SeqCaller)
  \/ AttachStart(SeqCaller)
  \/ Quiet /\ \E healthy \in BOOLEAN : ProbeDone(SeqCaller, healthy)
  \/ Quiet /\ \E ok \in BOOLEAN : AttachRetireDone(SeqCaller, ok)
  \/ Quiet /\ \E ok \in BOOLEAN : AttachCreateDone(SeqCaller, ok)
  \/ Keep(SeqCaller)
  \/ Quiet /\ \E o \in Obj : TimerFire(o)
  \/ Quiet /\ \E r \in retiring, ok \in BOOLEAN : RetireDone(r, ok)
  \/ DetachAllStart
  \/ DetachAllDetached
  \/ DetachAllStep

SpecDetachAll == AgainInit /\ [][DetachAllNext]_vars

----------------------------------------------------------------------------
\* Queries: init(), pool.query() calls of one caller one after the other, and
\* expiry.
QueryNext ==
  \/ InitStart
  \/ InitCreateDone
  \/ InitCreateFailed
  \/ QueryStart(SeqCaller)
  \/ AttachStart(SeqCaller)
  \/ \E healthy \in BOOLEAN : ProbeDone(SeqCaller, healthy)
  \/ \E ok \in BOOLEAN : AttachRetireDone(SeqCaller, ok)
  \/ \E ok \in BOOLEAN : AttachCreateDone(SeqCaller, ok)
  \/ QueryAttachFailed(SeqCaller)
  \/ \E ok \in BOOLEAN : QueryStatementDone(SeqCaller, ok)
  \/ QueryDetachDone(SeqCaller)
  \/ QueryReturn(SeqCaller)
  \/ \E o \in Obj : TimerFire(o)
  \/ \E r \in retiring, ok \in BOOLEAN : RetireDone(r, ok)

SpecQuery == Init /\ [][QueryNext]_vars

----------------------------------------------------------------------------
\* Properties

Held(c) == att[c].pc = "held"
Created == {o \in Obj : conn[o].status # "none"}
Unsettled(a) == a.pc = "queued" \/ InCritical(a)

\* C1: no two attach() calls that resolved hold the same connection while
\* neither caller has detached or retired it.
C1_NoSharedConnection ==
  \A a, b \in Callers : (a # b /\ Held(a) /\ Held(b)) => att[a].obj # att[b].obj

\* C2: in every reachable state connections has at most maxSize entries, for
\* every configuration, during init() and when init() and attach() overlap.
C2_SizeAtMostMax == Len(connections) <= maxSize

\* C3: connection ids start at 1 and strictly increase in creation order, so no
\* two connections ever created share an id and none is reused after a
\* retirement; no step changes the id of a connection already created.
C3_IdsIncrease ==
  /\ 1 \in Created => conn[1].poolIndex = 1
  /\ \A o1, o2 \in Created : o1 < o2 => conn[o1].poolIndex < conn[o2].poolIndex
C3_IdsKept == \A o \in Created : conn'[o].poolIndex = conn[o].poolIndex
C3_StableIds == []C3_IdsIncrease /\ [][C3_IdsKept]_vars
\* A connection is being created by a call that retired one before, and its id
\* is beyond the present length of connections.
C3_Witness ==
  \E c \in Callers :
    /\ att[c].pc = "create" /\ att[c].healthCheckRetries >= 1
    /\ conn[att[c].obj].poolIndex > Len(connections)

\* C4: at most one run of _attach is in progress at any time, also while it is
\* suspended at a probe, a session creation or a session close.
C4_OneCriticalSection ==
  \A a, b \in Callers : (a # b /\ InCritical(att[a])) => ~InCritical(att[b])
\* One call awaits a session close inside _attach while another call waits.
C4_Witness ==
  \E a, b \in Callers : att[a].pc = "retire" /\ att[b].pc = "queued"

\* C5: attach() calls enter the critical section in the order of submission: a
\* call submitted later has not started while an earlier one is unsettled.
C5_Fifo ==
  \A a, b \in Callers :
    (0 < att[a].ticket /\ att[a].ticket < att[b].ticket /\ Unsettled(att[a]))
      => att[b].pc = "queued"
\* The call submitted first runs while the one submitted second waits, whatever
\* the callers' numbers.
C5_Witness ==
  \E a, b \in Callers :
    /\ a > b /\ att[a].ticket < att[b].ticket
    /\ att[a].pc = "create" /\ att[b].pc = "queued"

\* C6: a rejected attach() does not block the queue: whenever no call is
\* running, the earliest call still waiting is the one admitted next (so a
\* rejected call never stays ahead of it), and a rejection changes the state of
\* no other caller's call.
C6_NextAdmitted ==
  \A d \in Callers :
    ( /\ att[d].pc = "queued"
      /\ \A e \in Callers \ {d} :
           /\ ~InCritical(att[e])
           /\ att[e].pc = "queued" => att[e].ticket > att[d].ticket )
      => (Len(attachQueue) > 0 /\ Head(attachQueue) = d)
C6_OwnCallerOnly ==
  \A c \in Callers :
    (att'[c].pc = "rejected" /\ att[c].pc # "rejected")
      => \A d \in Callers \ {c} : att'[d] = att[d]
C6_RejectionDoesNotBlock == []C6_NextAdmitted /\ [][C6_OwnCallerOnly]_vars
\* A call was rejected for an exhausted pool and the call submitted next holds
\* a connection.
C6_Witness ==
  \E c, d \in Callers :
    /\ att[c].pc = "rejected" /\ att[c].err = "exhausted"
    /\ Held(d) /\ att[d].ticket = att[c].ticket + 1

\* C7: attach() fails with the pool-exhausted error exactly when its scan finds
\* no available connection with the pool at maxSize and nothing created by the
\* call; the failing call added no connection and changed no availability.
C7_Step ==
  \A c \in Callers :
    /\ (att'[c].err = "exhausted" /\ att[c].err # "exhausted")
         => /\ FirstAvailable(connections', conn') = 0
            /\ Len(connections') >= maxSize
            /\ att'[c].created = 0
            /\ att'[c].claimed = 0
    /\ ( /\ att[c].pc = "queued" /\ att'[c].pc # "queued"
         /\ FirstAvailable(connections, conn) = 0
         /\ Len(connections) >= maxSize )
         => att'[c].err = "exhausted"
C7_ExhaustedExactly == [][C7_Step]_vars

\* C8: with initialSize <= maxSize and every probe, open and close succeeding,
\* sequential attach() calls with nothing given back succeed exactly maxSize
\* times with pairwise distinct connections, and the next one fails with pool
\* exhausted.
C8_Healthy ==
  /\ initialSize <= maxSize
  /\ \A o \in Obj : conn[o].status \in {"none", "creating", "ready"}
C8_SequentialUntilMax ==
  C8_Healthy =>
    /\ Held(SeqCaller) =>
         /\ nSubmitted <= maxSize
         /\ att[SeqCaller].obj \notin kept
         /\ Cardinality(kept) = nSubmitted - 1
    /\ att[SeqCaller].pc = "rejected" =>
         /\ att[SeqCaller].err = "exhausted"
         /\ nSubmitted = maxSize + 1
         /\ Cardinality(kept) = maxSize
\* initialSize 2, maxSize 3, incrementSize 1: three succeeded, the fourth failed.
C8_Witness ==
  /\ C8_Healthy
  /\ initialSize = 2 /\ maxSize = 3 /\ incrementSize = 1
  /\ att[SeqCaller].pc = "rejected" /\ att[SeqCaller].err = "exhausted"
  /\ Cardinality(kept) = 3 /\ nSubmitted = 4

\* C9: with health checking enabled, every connection attach() returns passed
\* its probe in that same call, and the connection retired after a failed probe
\* is the one whose probe failed.
C9_ProbedOnly ==
  healthCheckOnAttach =>
    \A c \in Callers :
      /\ Held(c) => att[c].passed = att[c].obj
      /\ att[c].pc = "retire" => att[c].obj = att[c].failed

\* C10: with health checking enabled, when the only available connection fails
\* its probe and the pool is under maxSize after its retirement, attach() does
\* not reject for the failed probe (only a failed session open can reject it)
\* and resolves with a connection created by that call, for every maxSize >= 1.
C10_ReplacesUnhealthy ==
  healthCheckOnAttach =>
    /\ ( /\ att[SeqCaller].pc = "rejected"
         /\ att[SeqCaller].healthCheckRetries = 1 /\ att[SeqCaller].claimed = 1
         /\ Len(connections) < maxSize
         /\ FirstAvailable(connections, conn) = 0 )
         => att[SeqCaller].err = "create"
    /\ ( /\ Held(SeqCaller)
         /\ att[SeqCaller].healthCheckRetries = 1 /\ att[SeqCaller].created >= 1 )
         => /\ att[SeqCaller].obj > nObj - att[SeqCaller].created
            /\ att[SeqCaller].passed = att[SeqCaller].obj

\* C11: within one attach() call the failed probes tolerated are bounded by a
\* ceiling equal to maxSize: the call fails with the health-check-exhausted
\* error only when the ceiling is exceeded, so a call that failed that way has
\* counted more than maxSize failed probes, and never fewer than maxSize.
C11_CeilingExceeded ==
  \A c \in Callers :
    (att[c].pc = "rejected" /\ att[c].err = "healthcheck")
      => att[c].healthCheckRetries > maxSize

\* C12: a connection that attach() returned and that its holder has not yet
\* detached or retired has no pending expiry timer and is not being retired
\* by the expiry mechanism.
C12_HeldNotExpiring ==
  \A c \in Callers :
    Held(c) => /\ ~conn[att[c].obj].expiryTimerId
               /\ <<att[c].obj, "expiry">> \notin retiring

\* C13: an available connection with a positive expiry whose timer fires before
\* it is claimed is unavailable from then on, is removed from connections once
\* its expiry retirement has settled, and no attach() that resolves afterwards
\* returns it.
C13_Expired == {o \in Obj : conn[o].expired}
C13_Gone ==
  \A o \in C13_Expired :
    /\ ~conn[o].available
    /\ <<o, "expiry">> \notin retiring => \A k \in 1..Len(connections) : connections[k] # o
C13_NotReturned ==
  \A c \in Callers :
    (att[c].pc # "held" /\ att'[c].pc = "held") => att'[c].obj \notin C13_Expired
C13_ExpiredIdleRetired == []C13_Gone /\ [][C13_NotReturned]_vars

\* C14: a connection whose expiry is null, absent or 0 never has an expiry
\* timer pending, at creation or after a detach, and is never retired by
\* expiry; a step starts a timer only for a connection with a positive expiry.
C14_NoTimer ==
  \A o \in Obj :
    conn[o].expiry = 0 => /\ ~conn[o].expiryTimerId
                          /\ <<o, "expiry">> \notin retiring
                          /\ ~conn[o].expired
C14_OnlyPositiveStarts ==
  \A o \in Obj :
    (conn'[o].expiryTimerId /\ ~conn[o].expiryTimerId) => conn'[o].expiry > 0
C14_NoExpiryNoTimer == []C14_NoTimer /\ [][C14_OnlyPositiveStarts]_vars
\* A connection created without expiry was attached and detached and is idle.
C14_Witness ==
  \E o \in Obj :
    /\ conn[o].status = "ready" /\ conn[o].expiry = 0
    /\ conn[o].detached /\ conn[o].available /\ o \notin detaching

\* C15: a retire(c) whose close succeeded removes exactly c from connections,
\* by identity: the other members keep their membership, relative order and
\* ids; when the retirement is not part of an attach() (which goes on scanning
\* in the same run), nothing else changes: the size drops by exactly one and
\* every other connection keeps its availability.
C15_Step ==
  \A o \in Obj :
    (conn[o].status = "closing" /\ conn'[o].status = "closed" /\ InPool(connections, o))
      => /\ SelectSeq(connections', LAMBDA x : InPool(connections, x))
              = SelectSeq(connections, LAMBDA x : x # o)
         /\ \A x \in Created \ {o} : conn'[x].poolIndex = conn[x].poolIndex
         /\ retiring' # retiring
              => /\ connections' = SelectSeq(connections, LAMBDA x : x # o)
                 /\ Len(connections') = Len(connections) - 1
                 /\ \A x \in Obj \ {o} : conn'[x].available = conn[x].available
C15_RetireRemovesExactly == [][C15_Step]_vars
\* The second of three connections was retired; the first and third remain,
\* in order.
C15_Witness ==
  \E o \in Obj :
    /\ conn[o].status = "closed" /\ ~InPool(connections, o)
    /\ Len(connections) = 2 /\ connections[1] < o /\ o < connections[2]

\* C16: when the session close fails during retire(c), called by a holder, by
\* the expiry timer or by attach() after a failed probe, c is removed from
\* connections all the same.
C16_Step ==
  \A o \in Obj :
    (conn[o].status = "closing" /\ conn'[o].status = "failed")
      => ~InPool(connections', o)
C16_FailedCloseStillRemoves == [][C16_Step]_vars

\* C17: retireAll() and close() try to retire every pooled connection even if
\* one retirement fails: when the call reports its failure, every connection
\* that was pooled at the start and is still pooled is one whose retirement
\* the call attempted.
C17_AllAttempted ==
  bulk.pc = "rejected" =>
    \A o \in bulk.atStart : InPool(connections, o) => o \in bulk.attempted

\* C18: at the step at which retireAll() or close() resolves with true,
\* connections is empty and the session of every connection that was pooled
\* when the call started has been closed, however the collection shrank or
\* grew while the call iterated.
C18_Step ==
  (bulk.pc # "resolved" /\ bulk'.pc = "resolved")
    => /\ connections' = <<>>
       /\ \A o \in bulk'.atStart : conn'[o].sessionClosed
C18_ResolvedMeansEmpty == [][C18_Step]_vars
\* The call resolved; three connections were pooled at its start and one of
\* them was removed by its expiry while the call iterated.
C18_Witness ==
  /\ bulk.pc = "resolved"
  /\ Cardinality(bulk.atStart) = 3
  /\ Cardinality(bulk.attempted \cap bulk.atStart) = 2

\* C19: query() borrows one connection with attach() and releases that same
\* connection with detach() on every exit path: at the step at which query()
\* settles after its statement succeeded or failed, the connection it
\* released is the one its attach() claimed and that connection is available
\* (no other caller is active); query() rejects exactly when the statement
\* failed.
C19_Step ==
  \A c \in Callers :
    (qry[c].pc = "detach" /\ qry'[c].pc \in {"resolved", "rejected"})
      => /\ qry[c].obj = qry[c].claimed
         /\ conn'[qry[c].claimed].available
         /\ conn'[qry[c].obj].available
         /\ (qry'[c].pc = "rejected") <=> ~qry[c].stmtOk
C19_QueryReleases == [][C19_Step]_vars

C21_Step ==
  \A c \in Callers :
    att[c].step = 2 /\ att'[c].step = 3 =>
      /\ getStats(connections', conn').available = att[c].stats0.available
      /\ getStats(connections', conn').busy = att[c].stats0.busy
C21_CleanStep ==
  \A c \in Callers :
    (/\ att[c].step = 2 /\ att'[c].step = 3
     /\ att[c].stats0.available >= 1
     /\ ~att'[c].unhealthy) =>
      /\ getStats(connections', conn').available = att[c].stats0.available
      /\ getStats(connections', conn').busy = att[c].stats0.busy
      /\ getStats(connections', conn').total = att[c].stats0.total
OwnExpiry(o) == IF conn[o].origin = "init" THEN initialExpiry ELSE incrementExpiry
C22_Step ==
  \A o \in Obj :
    /\ (o \notin detaching /\ o \in detaching') => conn'[o].available
    /\ (o \in detaching /\ o \notin detaching') =>
         /\ conn'[o].expiry = OwnExpiry(o)
         /\ conn'[o].expiryTimerId = (OwnExpiry(o) > 0)
C22_DetachUsesOwnExpiry == [][C22_Step]_vars

\* C23: detach() of a pooled connection that is available already changes
\* nothing: the connection stays available, the timer it had is cleared and
\* replaced so that at most one is pending, and every other connection is
\* left alone; detach; detach ends where a single detach does.
C23_Step ==
  \A o \in Obj :
    (~conn[o].again /\ conn'[o].again) =>
      /\ conn' = [conn EXCEPT ![o].again = TRUE, ![o].detached = TRUE]
      /\ conn'[o].available
      /\ conn'[o].timers = IF conn'[o].expiry > 0 THEN 1 ELSE 0
      /\ connections' = connections
C23_OneTimer == \A o \in Obj : conn[o].timers <= 1
C23_DetachIdempotent == []C23_OneTimer /\ [][C23_Step]_vars

C23_Witness ==
  \E o \in Obj :
    /\ conn[o].again /\ conn[o].detached
    /\ InPool(connections, o)
    /\ conn[o].available
    /\ conn[o].timers = 1

\* C24: a listener that throws does not abort the init() or attach() call
\* that emitted the event: no such call rejects with what the listener threw.
C24_ListenerDoesNotAbort ==
  /\ initPc # "threw"
  /\ \A c \in Callers : att[c].err # "listener"

\* C25: when the session of a connection fails to open while attach() grows
\* the pool, the call rejects with that failure and creates nothing more, and
\* the connections the same growth loop created before are still pooled and
\* available.  As stated:
C25_Aborted(c) == att[c].pc = "create" /\ att'[c].pc = "rejected"
C25_Step ==
  \A c \in Callers :
    C25_Aborted(c) =>
      /\ att'[c].err = "create"
      /\ nObj' = nObj
      /\ \A o \in att[c].grown : InPool(connections', o) /\ conn'[o].available
C25_UnexpiredStep ==
  \A c \in Callers :
    C25_Aborted(c) =>
      /\ att'[c].err = "create"
      /\ nObj' = nObj
      /\ connections' = connections
      /\ \A o \in att[c].grown :
           \/ InPool(connections', o) /\ conn'[o].available
           \/ conn[o].expired
C26_Distinct ==
  \A j, k \in 1..Len(registry.pools) :
    j # k => registry.pools[j].id # registry.pools[k].id
C26_Refused(r) == r.call.pc = "returned" /\ ~r.call.ret
C26_Step ==
  (registry.call.pc # "activating" /\ registry'.call # registry.call) =>
    LET id == registry'.call.id
    IN IF Registered(registry.pools, id) \/ Len(registry.pools) >= MAX_POOLS
       THEN C26_Refused(registry') /\ registry'.pools = registry.pools
       ELSE /\ ~C26_Refused(registry')
            /\ registry'.pools = Append(registry.pools, [id |-> id, active |-> FALSE])
C26_RegistryBounded ==
  /\ [](C26_Distinct /\ Len(registry.pools) <= MAX_POOLS)
  /\ [][C26_Step]_vars

\* C27: the constructor applies each default whenever the option is omitted:
\* maxSize 20, initial size 8, no initial expiry, increment size 8, no
\* increment expiry, health check on attach; so with incrementConnections
\* omitted the increment size is 8 and there is no increment expiry, whatever
\* initialConnections is.
C27_Defaults ==
  initPc # "new" =>
    /\ (~opts.maxSize.given => maxSize = DefaultMaxSize)
    /\ (~opts.initialConnections.size.given => initialSize = DefaultInitialSize)
    /\ (~opts.initialConnections.expiry.given => initialExpiry = 0)
    /\ (~opts.incrementConnections.size.given => incrementSize = DefaultIncrementSize)
    /\ (~opts.incrementConnections.expiry.given => incrementExpiry = 0)
    /\ (~opts.onAttach.given => healthCheckOnAttach)

\* C28: when an attach() resolves, the connection it returns is in
\* connections and is not available.
C28_Step ==
  \A c \in Callers :
    (~Held(c) /\ att'[c].pc = "held") =>
      /\ InPool(connections', att'[c].obj)
      /\ ~conn'[att'[c].obj].available
C28_ReturnedIsPooledAndClaimed == [][C28_Step]_vars

\* C29: when attach() finds no available connection and the pool is below
\* maxSize, it creates exactly min(incrementSize, maxSize - |connections|)
\* connections, each with the increment expiry, and scans again; it never
\* starts creating while a connection is available.  As stated:
Min(a, b) == IF a <= b THEN a ELSE b
C29_LoopLeft(c) ==
  att[c].pc = "create" /\ att'[c].pc \notin {"create", "rejected"}
C29_StartsCreating(c) ==
  att'[c].pc = "create" /\ (att[c].pc # "create" \/ att'[c].obj # att[c].obj)
C29_EntersLoop(c) == att[c].pc # "create" /\ att'[c].pc = "create"
C29_NoneAvailable ==
  \A c \in Callers :
    C29_EntersLoop(c) =>
      \A k \in 1..Len(connections') : ~conn'[connections'[k]].available
C29_IncrementExpiry ==
  \A c \in Callers :
    C29_LoopLeft(c) =>
      /\ \A o \in att'[c].grown : conn'[o].expiry = incrementExpiry
      /\ att'[c].pc \in {"probe", "held"}
C29_ExactStep ==
  /\ C29_NoneAvailable
  /\ C29_IncrementExpiry
  /\ \A c \in Callers :
       C29_LoopLeft(c) =>
         Cardinality(att'[c].grown) = Min(incrementSize, maxSize - Len(att[c].growCs))
C29_GrowsByExactlyMin == [][C29_ExactStep]_vars

\* C29 amended: it creates one connection after the other until it has made
\* incrementSize of them or connections has reached maxSize; that is
\* min(incrementSize, maxSize - |connections|) of them when connections then
\* is what it was at the scan followed by the connections created.
C29_OwnGrowthOnly(cs0, cs, grown) ==
  /\ Len(cs) = Len(cs0) + Cardinality(grown)
  /\ \A k \in 1..Len(cs) : IF k <= Len(cs0) THEN cs[k] = cs0[k] ELSE cs[k] \in grown
C29_UntilStep ==
  /\ C29_NoneAvailable
  /\ C29_IncrementExpiry
  /\ \A c \in Callers :
       /\ C29_StartsCreating(c) =>
            /\ Len(connections') <= maxSize
            /\ att[c].growI < incrementSize
       /\ C29_LoopLeft(c) =>
            LET n == Cardinality(att'[c].grown)
            IN /\ n >= 1 /\ n <= incrementSize
               /\ n = incrementSize \/ Len(connections') >= maxSize
               /\ C29_OwnGrowthOnly(att[c].growCs, connections', att'[c].grown) =>
                    n = Min(incrementSize, maxSize - Len(att[c].growCs))
C29_GrowsUntilFull == [][C29_UntilStep]_vars

C29_Witness ==
  \E c \in Callers :
    /\ Held(c)
    /\ Cardinality(att[c].grown) = 2
    /\ Len(att[c].growCs) = 1
    /\ C29_OwnGrowthOnly(att[c].growCs, connections, att[c].grown)
    /\ maxSize = 3 /\ incrementSize = 2

\* C30: attach() calls made together on a pool without an available
\* connection do not create more than they need: a call starts to grow the
\* pool only when no connection is available, so it first takes what the
\* growth of an earlier call left over; and with incrementSize = 1, on a pool
\* used by nobody else, the calls of all callers create one connection each
\* and every caller gets another one.
C30_AllHeld == \A c \in Callers : Held(c) /\ att[c].failed = 0
C30_OneEach ==
  (incrementSize = 1 /\ initPc = "idle" /\ C30_AllHeld) =>
    /\ nObj = NumCallers
    /\ Len(connections) = NumCallers
    /\ \A c \in Callers : att[c].created = 1 /\ InPool(connections, att[c].obj)
    /\ \A c, d \in Callers : c # d => att[c].obj # att[d].obj
C30_SurplusFirst ==
  \A c \in Callers :
    (att[c].pc \in {"queued", "retire"} /\ att'[c].pc = "create") =>
      FirstAvailable(Remove(connections', att'[c].obj), conn') = 0
C30_NoOverCreation == []C30_OneEach /\ [][C30_SurplusFirst]_vars

C30_Witness ==
  /\ incrementSize = 1 /\ initPc = "idle" /\ C30_AllHeld
  /\ healthCheckOnAttach
  /\ nObj = NumCallers
  /\ \E c \in Callers : att[c].ticket = 1 /\ att[c].obj = 1

\* C31: no _attach run loops for ever without suspending: no call is ever in
\* the scan and growth loops with nothing available, the pool at maxSize and
\* increasedPoolSize set, where every iteration repeats the one before.
C31_NeverSpins == \A c \in Callers : att[c].pc # "spin"

\* C32: with healthCheck.onAttach false, no attach() call ever awaits a probe
\* or a retire; the step in which a call resolves hands out a pooled
\* connection that was available (or was just created by the call), is marked
\* unavailable now and has no available connection ahead of it; and a call
\* that resolves without having created a connection leaves connections as
\* it was.
C32_Step ==
  \A c \in Callers :
    (~healthCheckOnAttach /\ ~Held(c) /\ att'[c].pc = "held") =>
      LET o == att'[c].obj
      IN /\ Leftmost(connections', conn', o)
         /\ ~conn'[o].available
         /\ conn[o].available \/ (att[c].pc = "create" /\ att[c].obj = o)
         /\ \A x \in Obj \ {o} : conn'[x].available = conn[x].available
                                   \/ (att[c].pc = "create" /\ att[c].obj = x)
         /\ att'[c].created = 0 => connections' = connections
C32_NoProbeWhenDisabled ==
  /\ [](~healthCheckOnAttach =>
          \A c \in Callers : /\ att[c].pc \notin {"probe", "retire"}
                             /\ att[c].passed = 0 /\ att[c].failed = 0)
  /\ [][C32_Step]_vars
\* A call resolved without health check and without growth although an
\* available connection lies behind the one it got.
C32_Witness ==
  \E c \in Callers :
    /\ ~healthCheckOnAttach /\ Held(c) /\ att[c].created = 0
    /\ \E k \in 1..Len(connections) :
         /\ connections[k] = att[c].obj
         /\ \E j \in (k + 1)..Len(connections) : conn[connections[j]].available

\* C33: every connection has at most one expiry timer pending, and one is
\* pending only for a member of connections that is available, has a positive
\* expiry and is neither being retired nor retired.
C33_TimerOnlyWhenIdle ==
  \A o \in Obj :
    /\ conn[o].timers <= 1
    /\ conn[o].timers > 0 =>
         /\ InPool(connections, o)
         /\ conn[o].available
         /\ conn[o].expiry > 0
         /\ conn[o].status = "ready"

\* C34: in the step in which detachAll() resolves, every member of
\* connections is available and has an expiry timer pending exactly if its
\* expiry is positive, whether or not it was claimed when the call started.
C34_Step ==
  (bulk.pc # "resolved" /\ bulk'.pc = "resolved" /\ bulk'.op = "detachAll") =>
    \A k \in 1..Len(connections') :
      /\ conn'[connections'[k]].available
      /\ conn'[connections'[k]].expiryTimerId = (conn'[connections'[k]].expiry > 0)
C34_DetachAllFreesAll == [][C34_Step]_vars

\* C35: in the step in which _attach resumes after its probe, the connection
\* it returns or starts to retire is the one it claimed and probed, whatever
\* was removed from connections meanwhile, and the step does not fail for
\* having lost it.
C35_Step ==
  \A c \in Callers :
    (att[c].pc = "probe" /\ att'[c].pc # "probe") =>
      /\ att'[c].pc \in {"held", "retire"}
      /\ att'[c].obj = att[c].obj
C35_ActsOnProbed == [][C35_Step]_vars

\* C36: a connection that an attach() call claims (marks unavailable for its
\* probe, or returns) has been opened and no retire() of it has begun: it is
\* neither being created nor being closed nor closed.
C36_Step ==
  \A c \in Callers :
    (att'[c].pc \in {"probe", "held"} /\ att'[c] # att[c] /\ att[c].pc # "held") =>
      conn'[att'[c].obj].status = "ready"
C36_OnlyReadyClaimed == [][C36_Step]_vars

\* C37: the step in which a createConnection fails (the session of a
\* connection being created does not open) leaves connections without that
\* connection, so that the failure takes no place counted against maxSize.
C37_Step ==
  \A o \in Obj :
    (conn[o].status = "creating" /\ conn'[o].status = "failed")
      => /\ ~InPool(connections', o)
         /\ Len(connections') < Len(connections)
C37_FailedCreationLeavesNoEntry == [][C37_Step]_vars

\* C38: an attach() call rejects only because the pool is exhausted, the
\* health-check ceiling is reached or a session could not be created; what
\* goes wrong while an unhealthy candidate is probed or retired is dealt with
\* inside the call.
C38_RejectionKinds ==
  \A c \in Callers :
    att[c].pc = "rejected" => att[c].err \in {"exhausted", "healthcheck", "create"}

\* C39: every member of connections that is not available is held by a
\* caller that got it from attach(), is claimed by an attach() call that is
\* probing it, or is being created or being retired.
C39_Accounted(o) ==
  \/ \E c \in Callers : att[c].pc \in {"held", "probe"} /\ att[c].obj = o
  \/ conn[o].status \in {"creating", "closing"}
C39_NoneStranded ==
  \A k \in 1..Len(connections) :
    ~conn[connections[k]].available => C39_Accounted(connections[k])

\* C40: a pool instance is constructed for a registered id (by the
\* activation of its register() or of a get() that found it inactive) only
\* when no activation of that id is already awaited: overlapping calls for
\* one inactive pool construct one instance.
C40_Activating(r, id) ==
  \/ \E k \in 1..Len(r.gets) : r.gets[k] = id
  \/ r.call.pc = "activating" /\ r.call.id = id
C40_Constructs(id) ==
  \/ /\ Len(registry'.gets) > Len(registry.gets)
     /\ registry'.gets[Len(registry'.gets)] = id
  \/ /\ registry'.call.pc = "activating" /\ registry.call.pc # "activating"
     /\ registry'.call.id = id
C40_Step == \A id \in PoolIds : C40_Constructs(id) => ~C40_Activating(registry, id)
C40_OneInstance == [][C40_Step]_vars
====
